---- MODULE Spec2Model ----
(***************************************************************************)
(* Model of consensus/src/rpc/nimbus_rpc.rs: NimbusRpc, the retrying HTTP  *)
(* adapter that fetches light-client data from a beacon node.              *)
(*                                                                         *)
(* Every operation is the pipeline                                         *)
(*     format!(url) -> client.get(url).send().await -> .json::<T>().await  *)
(*     -> Ok(unwrap envelope)                                              *)
(* with both awaits mapped to RpcError::new(<tag>, e).  The client is a    *)
(* reqwest client wrapped in RetryTransientMiddleware with an              *)
(* ExponentialBackoff policy of at most 3 retries.                         *)
(*                                                                         *)
(* A caller (an async task) runs one logical call at a time; several       *)
(* callers share the one adapter.                                          *)
(***************************************************************************)
EXTENDS Integers, Sequences, FiniteSets, TLC

\* ------------------------------------------------------------------ bounds
\* longest updates array a server answers with
MaxUpdates == 2
\* largest start_period / slot a caller asks for
MaxPeriod == 1
MaxSlot == 1

\* ------------------------------------------------------- program constants
\* crate::constants::MAX_REQUEST_LIGHT_CLIENT_UPDATES, a u8 imported by the
\* adapter; the clamp is the same for any value of it below U8_MAX
MAX_REQUEST_LIGHT_CLIENT_UPDATES == 128
\* largest value of the parameter count: u8
U8_MAX == 255
\* ExponentialBackoff::builder().build_with_max_retries(3)
MAX_N_RETRIES == 3
\* ExponentialBackoff::builder().backoff_exponent(1)
BACKOFF_EXPONENT == 1

\* ------------------------------------------------------------ environment
\* the endpoint the adapter is constructed with
Endpoint == "http://node"

\* the tasks that call the adapter
Callers == {"t1", "t2"}

\* caller inputs
Roots == {<<>>, <<10, 255>>}
Periods == 0 .. MaxPeriod
Slots == 0 .. MaxSlot
Counts ==
  {0, 1, MAX_REQUEST_LIGHT_CLIENT_UPDATES - 1, MAX_REQUEST_LIGHT_CLIENT_UPDATES,
   MAX_REQUEST_LIGHT_CLIENT_UPDATES + 1, U8_MAX}

Min(a, b) == IF a <= b THEN a ELSE b

\* ---------------------------------------------------------------- strings
HexDigits == <<"0", "1", "2", "3", "4", "5", "6", "7",
               "8", "9", "a", "b", "c", "d", "e", "f">>

\* hex::encode: two lower-case hex digits per byte, high nibble first
HexEncode(bytes) ==
  [i \in 1 .. 2 * Len(bytes) |->
     IF i % 2 = 1 THEN HexDigits[(bytes[(i + 1) \div 2] \div 16) + 1]
                  ELSE HexDigits[(bytes[i \div 2] % 16) + 1]]

RECURSIVE Decimal(_)
\* Display for u64 / u8: the decimal digits, no leading zero
Decimal(n) ==
  IF n < 10 THEN <<HexDigits[n + 1]>>
            ELSE Append(Decimal(n \div 10), HexDigits[(n % 10) + 1])

\* ------------------------------------------------------------ JSON bodies
\* A body is what the server put after the headers: text that is not JSON,
\* a JSON object (a function from its keys) or a JSON array.
Invalid == [t |-> "invalid"]
Object(o) == [t |-> "object", o |-> o]
Array(a) == [t |-> "array", a |-> a]

\* Domain values (crate::types), abstracted to their type and an identity.
Value(ty, id) == [ty |-> ty, id |-> id]

\* the error object a beacon node answers with; it has no data key
ErrorObject == Object([code |-> 404, message |-> "not found"])

Envelope(d) == Object([data |-> d])

RECURSIVE SeqsUpTo(_, _)
SeqsUpTo(S, n) ==
  IF n = 0 THEN {<<>>}
  ELSE LET shorter == SeqsUpTo(S, n - 1)
       IN  shorter \cup {Append(s, x) : s \in {q \in shorter : Len(q) = n - 1}, x \in S}

UpdateValues == {Value("Update", 1), Value("Update", 2)}

\* what a server may answer to each operation
Bodies(o) ==
  CASE o = "get_bootstrap" ->
         {Invalid, ErrorObject, Envelope(Value("Bootstrap", 1)),
          Envelope(Value("Update", 1))}
    [] o = "get_updates" ->
         {Invalid, ErrorObject, Envelope(Value("Update", 1)),
          Array(<<ErrorObject>>)}
         \cup {Array([i \in DOMAIN s |-> Envelope(s[i])]) : s \in SeqsUpTo(UpdateValues, MaxUpdates)}
    [] o = "get_finality_update" ->
         {Invalid, ErrorObject, Envelope(Value("FinalityUpdate", 1))}
    [] o = "get_optimistic_update" ->
         {Invalid, ErrorObject, Envelope(Value("OptimisticUpdate", 1))}
    [] o = "get_block" ->
         {Invalid, ErrorObject, Envelope(Value("BeaconBlock", 1)),
          Envelope([message |-> Value("BeaconBlock", 1), signature |-> "0xsig"]),
          Object([version |-> "bellatrix",
                  data |-> [message |-> Value("BeaconBlock", 2), signature |-> "0xsig"]])}
    [] o = "chain_id" ->
         {Invalid, ErrorObject,
          Envelope([DEPOSIT_NETWORK_ID |-> [t |-> "string", s |-> <<"5">>]]),
          Envelope([DEPOSIT_NETWORK_ID |-> [t |-> "number", n |-> 5]]),
          Envelope([DEPOSIT_NETWORK_ID |-> [t |-> "string", s |-> <<"x">>]]),
          Envelope([PRESET_BASE |-> [t |-> "string", s |-> <<"x">>]])}


\* ------------------------------------------------------------ the server
\* A physical attempt ends in a reqwest error or in a response.
\*   connect  : the connection failed        (reqwest::Error::is_connect)
\*   timeout  : the request timed out        (reqwest::Error::is_timeout)
\*   redirect : the redirect policy gave up  (reqwest::Error::is_redirect)
TransportError(kind) == [err |-> TRUE, kind |-> kind]
Response(status, body) == [err |-> FALSE, status |-> status, body |-> body]

Errors == {"connect", "timeout", "redirect"}
Statuses == {200, 404, 408, 429, 500}

\* every outcome of one physical attempt of operation o
Outcomes(o) ==
  {TransportError(k) : k \in Errors}
  \cup {Response(s, b) : s \in Statuses, b \in Bodies(o)}

\* a reduced server for the concurrent specification
QuietBodies(o) ==
  CASE o = "get_bootstrap" -> {Invalid, Envelope(Value("Bootstrap", 1))}
    [] o = "get_updates" -> {Invalid, Array(<<Envelope(Value("Update", 1))>>)}
    [] o = "get_finality_update" -> {Invalid, Envelope(Value("FinalityUpdate", 1))}
    [] o = "get_optimistic_update" -> {Invalid, Envelope(Value("OptimisticUpdate", 1))}
    [] o = "get_block" -> {Invalid, Envelope([message |-> Value("BeaconBlock", 1)])}
    [] o = "chain_id" ->
         {Invalid, Envelope([DEPOSIT_NETWORK_ID |-> [t |-> "string", s |-> <<"5">>]])}

QuietOutcomes(o) ==
  {TransportError("connect")}
  \cup {Response(s, b) : s \in {200, 404}, b \in QuietBodies(o)}

\* -------------------------------------------------------- retry middleware
\* mutant: every failure is retried, also a 404 and a redirect error
RetryableAnyFailure(outcome) ==
  IF outcome.err THEN "transient"
  ELSE IF outcome.status >= 200 /\ outcome.status <= 299 THEN "none" ELSE "transient"

\* reqwest_retry's classification of an attempt (Retryable::from_reqwest_response),
\* the strategy RetryTransientMiddleware::new_with_policy installs:
\*   response: 5xx -> transient; 408 and 429 -> transient; 2xx -> no failure;
\*             every other status -> fatal
\*   error:    connect or timeout -> transient; every other kind -> fatal
Retryable(outcome) ==
  IF outcome.err
  THEN IF outcome.kind \in {"connect", "timeout"} THEN "transient" ELSE "fatal"
  ELSE IF outcome.status >= 500 /\ outcome.status <= 599 THEN "transient"
       ELSE IF outcome.status \in {408, 429} THEN "transient"
       ELSE IF outcome.status >= 200 /\ outcome.status <= 299 THEN "none"
       ELSE "fatal"

\* RetryPolicy::should_retry of the policy built with max retries 3
should_retry(policy, n_past) == n_past < policy.max_n_retries

\* -------------------------------------------------------------- decoding
\* serde::Deserialize of a domain type: the value must be of that type
DecodesAs(ty, v) == "ty" \in DOMAIN v /\ v.ty = ty

DecodeOk(res) == [ok |-> TRUE, res |-> res]
DecodeErr == [ok |-> FALSE]

\* mutant: #[serde(default)] on data, a body without the key decodes to a default
DataResponseDefault(ty, body) ==
  IF body.t = "object"
  THEN IF "data" \in DOMAIN body.o
       THEN IF DecodesAs(ty, body.o.data) THEN DecodeOk([data |-> body.o.data]) ELSE DecodeErr
       ELSE DecodeOk([data |-> Value(ty, 0)])
  ELSE DecodeErr

\* #[derive(Deserialize)] struct XResponse { data: X }: the body must be an
\* object with a data key holding an X; other keys are ignored
DataResponse(ty, body) ==
  IF /\ body.t = "object"
     /\ "data" \in DOMAIN body.o
     /\ DecodesAs(ty, body.o.data)
  THEN DecodeOk([data |-> body.o.data])
  ELSE DecodeErr

BootstrapResponse(body) == DataResponse("Bootstrap", body)
FinalityUpdateResponse(body) == DataResponse("FinalityUpdate", body)
OptimisticUpdateResponse(body) == DataResponse("OptimisticUpdate", body)

\* struct UpdateData { data: Update }
UpdateData(v) ==
  IF v.t = "object" /\ "data" \in DOMAIN v.o /\ DecodesAs("Update", v.o.data)
  THEN DecodeOk([data |-> v.o.data])
  ELSE DecodeErr

\* type UpdateResponse = Vec<UpdateData>: an array, every element an UpdateData
UpdateResponse(body) ==
  IF /\ body.t = "array"
     /\ \A i \in DOMAIN body.a : UpdateData(body.a[i]).ok
  THEN DecodeOk([i \in DOMAIN body.a |-> UpdateData(body.a[i]).res])
  ELSE DecodeErr

\* struct BeaconBlockData { message: BeaconBlock }
BeaconBlockData(v) ==
  IF "message" \in DOMAIN v /\ DecodesAs("BeaconBlock", v.message)
  THEN DecodeOk([message |-> v.message])
  ELSE DecodeErr

\* struct BeaconBlockResponse { data: BeaconBlockData }
BeaconBlockResponse(body) ==
  IF /\ body.t = "object"
     /\ "data" \in DOMAIN body.o
     /\ BeaconBlockData(body.o.data).ok
  THEN DecodeOk([data |-> BeaconBlockData(body.o.data).res])
  ELSE DecodeErr

DigitValue(ch) == CHOOSE d \in 0 .. 9 : HexDigits[d + 1] = ch

RECURSIVE ParseU64(_)
ParseU64(s) ==
  IF Len(s) = 0 THEN 0
  ELSE 10 * ParseU64(SubSeq(s, 1, Len(s) - 1)) + DigitValue(s[Len(s)])

\* u64_deserialize: a JSON number, or a string of decimal digits
u64_deserialize(v) ==
  IF v.t = "number" THEN DecodeOk(v.n)
  ELSE IF /\ v.t = "string"
          /\ Len(v.s) > 0
          /\ \A i \in DOMAIN v.s : \E d \in 1 .. 10 : HexDigits[d] = v.s[i]
       THEN DecodeOk(ParseU64(v.s))
       ELSE DecodeErr

\* struct Spec { #[serde(rename = "DEPOSIT_NETWORK_ID")] chain_id: u64 }
SpecData(v) ==
  IF "DEPOSIT_NETWORK_ID" \in DOMAIN v /\ u64_deserialize(v.DEPOSIT_NETWORK_ID).ok
  THEN DecodeOk([chain_id |-> u64_deserialize(v.DEPOSIT_NETWORK_ID).res])
  ELSE DecodeErr

\* struct SpecResponse { data: Spec }
SpecResponse(body) ==
  IF /\ body.t = "object"
     /\ "data" \in DOMAIN body.o
     /\ SpecData(body.o.data).ok
  THEN DecodeOk([data |-> SpecData(body.o.data).res])
  ELSE DecodeErr

\* response.json::<T>() with the T of each operation
Json(o, body) ==
  CASE o = "get_bootstrap" -> BootstrapResponse(body)
    [] o = "get_updates" -> UpdateResponse(body)
    [] o = "get_finality_update" -> FinalityUpdateResponse(body)
    [] o = "get_optimistic_update" -> OptimisticUpdateResponse(body)
    [] o = "get_block" -> BeaconBlockResponse(body)
    [] o = "chain_id" -> SpecResponse(body)


\* ------------------------------------------------------------ the adapter
\* Result<T>: Ok(value) or Err(RpcError::new(operation, cause))
Ok(v) == [ok |-> TRUE, val |-> v]
RpcError(operation, cause) == [ok |-> FALSE, operation |-> operation, cause |-> cause]

\* NimbusRpc::new(rpc)
new(rpc) ==
  [rpc |-> rpc,
   client |-> [retry_policy |-> [backoff_exponent |-> BACKOFF_EXPONENT,
                                 max_n_retries |-> MAX_N_RETRIES]]]

\* mutant: the count goes out as the caller gave it
effective_count_unclamped(count) == count

\* let count = cmp::min(count, MAX_REQUEST_LIGHT_CLIENT_UPDATES)
effective_count(count) == Min(count, MAX_REQUEST_LIGHT_CLIENT_UPDATES)

Url(rpc, path, arg, query) == [rpc |-> rpc, path |-> path, arg |-> arg, query |-> query]

\* the format!() of each operation
bootstrap_req(rpc, block_root) ==
  Url(rpc, "/eth/v1/beacon/light_client/bootstrap/0x", HexEncode(block_root), <<>>)

updates_req(rpc, period, count) ==
  Url(rpc, "/eth/v1/beacon/light_client/updates", <<>>,
      <<[key |-> "start_period", val |-> Decimal(period)],
        [key |-> "count", val |-> Decimal(effective_count(count))]>>)

finality_update_req(rpc) ==
  Url(rpc, "/eth/v1/beacon/light_client/finality_update", <<>>, <<>>)

optimistic_update_req(rpc) ==
  Url(rpc, "/eth/v1/beacon/light_client/optimistic_update", <<>>, <<>>)

block_req(rpc, slot) == Url(rpc, "/eth/v2/beacon/blocks/", Decimal(slot), <<>>)

spec_req(rpc) == Url(rpc, "/eth/v1/config/spec", <<>>, <<>>)

\* mutant: get_updates reports its transport errors under the tag of get_bootstrap
SendTagPasted(o) ==
  CASE o = "get_bootstrap" -> "bootstrap"
    [] o = "get_updates" -> "bootstrap"
    [] o = "get_finality_update" -> "finality_update"
    [] o = "get_optimistic_update" -> "optimistic_update"
    [] o = "get_block" -> "blocks"
    [] o = "chain_id" -> "spec"

\* the tag of .send().await.map_err(|e| RpcError::new(<tag>, e))
SendTag(o) ==
  CASE o = "get_bootstrap" -> "bootstrap"
    [] o = "get_updates" -> "updates"
    [] o = "get_finality_update" -> "finality_update"
    [] o = "get_optimistic_update" -> "optimistic_update"
    [] o = "get_block" -> "blocks"
    [] o = "chain_id" -> "spec"

\* mutant: get_block reports its decode errors under the tag of chain_id
JsonTagPasted(o) ==
  CASE o = "get_bootstrap" -> "bootstrap"
    [] o = "get_updates" -> "updates"
    [] o = "get_finality_update" -> "finality_update"
    [] o = "get_optimistic_update" -> "optimistic_update"
    [] o = "get_block" -> "spec"
    [] o = "chain_id" -> "spec"

\* the tag of .json::<T>().await.map_err(|e| RpcError::new(<tag>, e))
JsonTag(o) ==
  CASE o = "get_bootstrap" -> "bootstrap"
    [] o = "get_updates" -> "updates"
    [] o = "get_finality_update" -> "finality_update"
    [] o = "get_optimistic_update" -> "optimistic_update"
    [] o = "get_block" -> "blocks"
    [] o = "chain_id" -> "spec"

\* mutant: the updates are collected last first
collect_reversed(res) == [i \in 1 .. Len(res) |-> res[Len(res) + 1 - i].data]

\* res.iter().map(|d| d.data.clone()).collect()
collect(res) == [i \in 1 .. Len(res) |-> res[i].data]

\* the Ok(...) each operation ends with
Unwrap(o, res) ==
  CASE o = "get_updates" -> collect(res)
    [] o = "get_block" -> res.data.message
    [] o = "chain_id" -> res.data.chain_id
    [] OTHER -> res.data

\* .json::<T>().await.map_err(..)? followed by Ok(..)
Decoded(o, body) ==
  IF Json(o, body).ok THEN Ok(Unwrap(o, Json(o, body).res))
                      ELSE RpcError(JsonTag(o), "decode")

\* mutant: the policy's retries are spent from the shared client
Spent(adapter) ==
  [adapter EXCEPT !.client.retry_policy.max_n_retries = IF @ > 0 THEN @ - 1 ELSE 0]

\* what a physical attempt leaves of the adapter: the operations take &self
\* and the middleware and its policy are used through shared references
Shared(adapter) == adapter

\* mutant: one retry counter for all calls in flight
RetriedShared(n, c) == [x \in DOMAIN n |-> n[x] + 1]

\* n_past_retries += 1, the counter local to one execution of the middleware
Retried(n, c) == [n EXCEPT ![c] = @ + 1]

\* ----------------------------------------------------------------- state
VARIABLES
  self,            \* the NimbusRpc all callers share: rpc and client
  pc,              \* per caller: "idle", "send" (in the middleware), "json", "done"
  op,              \* per caller: the operation it is in
  args,            \* per caller: the parameters it called with
  req,             \* per caller: the request it built
  n_past_retries,  \* per caller: the middleware's retry counter of this call
  hist,            \* per caller: the physical attempts of this call, in order
  resp,            \* per caller: what send() returned
  result           \* per caller: what the operation returned

vars == <<self, pc, op, args, req, n_past_retries, hist, resp, result>>

NoArgs == [block_root |-> <<>>, period |-> 0, count |-> 0, slot |-> 0]
NoReq == Url("", "", <<>>, <<>>)
NoResp == TransportError("none")
NoResult == RpcError("", "none")

Init ==
  /\ self = new(Endpoint)
  /\ pc = [c \in Callers |-> "idle"]
  /\ op = [c \in Callers |-> "none"]
  /\ args = [c \in Callers |-> NoArgs]
  /\ req = [c \in Callers |-> NoReq]
  /\ n_past_retries = [c \in Callers |-> 0]
  /\ hist = [c \in Callers |-> <<>>]
  /\ resp = [c \in Callers |-> NoResp]
  /\ result = [c \in Callers |-> NoResult]

\* the call of an operation up to client.get(req).send()
Call(c, o, a, r) ==
  /\ pc[c] = "idle"
  /\ pc' = [pc EXCEPT ![c] = "send"]
  /\ op' = [op EXCEPT ![c] = o]
  /\ args' = [args EXCEPT ![c] = a]
  /\ req' = [req EXCEPT ![c] = r]
  /\ n_past_retries' = [n_past_retries EXCEPT ![c] = 0]
  /\ hist' = [hist EXCEPT ![c] = <<>>]
  /\ UNCHANGED <<self, resp, result>>

get_bootstrap(c, roots) ==
  \E block_root \in roots :
    Call(c, "get_bootstrap", [NoArgs EXCEPT !.block_root = block_root],
         bootstrap_req(self.rpc, block_root))

get_updates(c, periods, counts) ==
  \E period \in periods, count \in counts :
    Call(c, "get_updates", [NoArgs EXCEPT !.period = period, !.count = count],
         updates_req(self.rpc, period, count))

get_finality_update(c) ==
  Call(c, "get_finality_update", NoArgs, finality_update_req(self.rpc))

get_optimistic_update(c) ==
  Call(c, "get_optimistic_update", NoArgs, optimistic_update_req(self.rpc))

get_block(c, slots) ==
  \E slot \in slots :
    Call(c, "get_block", [NoArgs EXCEPT !.slot = slot], block_req(self.rpc, slot))

chain_id(c) == Call(c, "chain_id", NoArgs, spec_req(self.rpc))

\* what hist keeps of an attempt: the request sent and how it ended
Attempt(r, out) ==
  [req |-> r, err |-> out.err,
   kind |-> IF out.err THEN out.kind ELSE "response",
   status |-> IF out.err THEN 0 ELSE out.status]

\* One iteration of the middleware's loop inside send().await: the request is
\* sent; a transient failure is retried while the policy allows, every other
\* outcome is what send() returns.  An Err leaves the operation through
\* map_err(..)?, a response goes on to .json().
send(c, outcomes) ==
  /\ pc[c] = "send"
  /\ \E out \in outcomes :
       /\ hist' = [hist EXCEPT ![c] = Append(@, Attempt(req[c], out))]
       /\ IF /\ Retryable(out) = "transient"
             /\ should_retry(self.client.retry_policy, n_past_retries[c])
          THEN /\ n_past_retries' = Retried(n_past_retries, c)
               /\ UNCHANGED <<pc, resp, result>>
          ELSE /\ resp' = [resp EXCEPT ![c] = out]
               /\ IF out.err
                  THEN /\ result' = [result EXCEPT ![c] = RpcError(SendTag(op[c]), out.kind)]
                       /\ pc' = [pc EXCEPT ![c] = "done"]
                  ELSE /\ pc' = [pc EXCEPT ![c] = "json"]
                       /\ UNCHANGED result
               /\ UNCHANGED n_past_retries
  /\ self' = Shared(self)
  /\ UNCHANGED <<op, args, req>>

\* .json::<T>().await and the Ok(..) after it
json(c) ==
  /\ pc[c] = "json"
  /\ result' = [result EXCEPT ![c] = Decoded(op[c], resp[c].body)]
  /\ pc' = [pc EXCEPT ![c] = "done"]
  /\ self' = Shared(self)
  /\ UNCHANGED <<op, args, req, n_past_retries, hist, resp>>

\* the caller takes the result; its task is free for the next call
return(c) ==
  /\ pc[c] = "done"
  /\ pc' = [pc EXCEPT ![c] = "idle"]
  /\ op' = [op EXCEPT ![c] = "none"]
  /\ args' = [args EXCEPT ![c] = NoArgs]
  /\ req' = [req EXCEPT ![c] = NoReq]
  /\ n_past_retries' = [n_past_retries EXCEPT ![c] = 0]
  /\ hist' = [hist EXCEPT ![c] = <<>>]
  /\ resp' = [resp EXCEPT ![c] = NoResp]
  /\ result' = [result EXCEPT ![c] = NoResult]
  /\ UNCHANGED self

\* one caller, the full server
Next ==
  \E c \in {"t1"} :
    \/ get_bootstrap(c, Roots)
    \/ get_updates(c, Periods, Counts)
    \/ get_finality_update(c)
    \/ get_optimistic_update(c)
    \/ get_block(c, Slots)
    \/ chain_id(c)
    \/ send(c, Outcomes(op[c]))
    \/ json(c)
    \/ return(c)

Spec == Init /\ [][Next]_vars

\* every attempt is answered and every body is decoded
FairSpec ==
  Spec /\ \A c \in Callers : WF_vars(send(c, Outcomes(op[c]))) /\ WF_vars(json(c))

\* concurrent callers, the reduced server
NextConcurrent ==
  \E c \in Callers :
    \/ get_bootstrap(c, {<<10, 255>>})
    \/ get_updates(c, {0}, {U8_MAX})
    \/ get_finality_update(c)
    \/ get_optimistic_update(c)
    \/ get_block(c, {0})
    \/ chain_id(c)
    \/ send(c, QuietOutcomes(op[c]))
    \/ json(c)
    \/ return(c)

SpecConcurrent == Init /\ [][NextConcurrent]_vars

\* one caller asking for updates with every count a u8 holds
NextUpdates ==
  \E c \in {"t1"} :
    \/ get_updates(c, Periods, 0 .. U8_MAX)
    \/ send(c, QuietOutcomes(op[c]))
    \/ json(c)
    \/ return(c)

SpecUpdates == Init /\ [][NextUpdates]_vars


\* ================================================================ claims
Done(c) == pc[c] = "done"
Last(c) == hist[c][Len(hist[c])]
Is2xx(status) == status >= 200 /\ status <= 299
Is4xx(status) == status >= 400 /\ status <= 499
Is5xx(status) == status >= 500 /\ status <= 599

\* the value of the query parameter key of request r
QueryParam(r, key) ==
  ParseU64((CHOOSE e \in {r.query[i] : i \in DOMAIN r.query} : e.key = key).val)

\* C1: every physical attempt of get_updates carries count = min(count,
\* MAX_REQUEST_LIGHT_CLIENT_UPDATES); above the maximum it carries the maximum
\* and not the caller's value.
C1_CountIsClamped ==
  \A c \in Callers :
    op[c] = "get_updates" =>
      \A i \in DOMAIN hist[c] :
        /\ QueryParam(hist[c][i].req, "count")
             = (IF args[c].count <= MAX_REQUEST_LIGHT_CLIENT_UPDATES
                THEN args[c].count ELSE MAX_REQUEST_LIGHT_CLIENT_UPDATES)
        /\ args[c].count > MAX_REQUEST_LIGHT_CLIENT_UPDATES =>
             /\ QueryParam(hist[c][i].req, "count") = MAX_REQUEST_LIGHT_CLIENT_UPDATES
             /\ QueryParam(hist[c][i].req, "count") # args[c].count

\* a call with count = 255 that was retried: two attempts on the wire
C1_Witness ==
  \E c \in Callers :
    /\ op[c] = "get_updates"
    /\ args[c].count = U8_MAX
    /\ Len(hist[c]) >= 2


\* an attempt that ended in a network error or a 5xx response
NetworkOr5xx(a) == a.err \/ Is5xx(a.status)

\* no physical attempt once send() has returned
NoAttemptAfterSend ==
  \A c \in Callers : pc[c] \in {"json", "done"} => hist'[c] = hist[c] \/ pc'[c] = "idle"

Transient(a) ==
  \/ a.err /\ a.kind \in {"connect", "timeout"}
  \/ ~a.err /\ (Is5xx(a.status) \/ a.status \in {408, 429})

\* an attempt that failed otherwise: another network error, another 4xx
NonTransient(a) ==
  \/ a.err /\ a.kind \notin {"connect", "timeout"}
  \/ ~a.err /\ Is4xx(a.status) /\ a.status \notin {408, 429}

UpdatesArray(b) ==
  /\ b.t = "array"
  /\ \A i \in DOMAIN b.a :
       /\ b.a[i].t = "object"
       /\ DOMAIN b.a[i].o = {"data"}
       /\ b.a[i].o.data \in UpdateValues

\* C3: get_updates whose first two attempts fail with a transport error and
\* whose third succeeds with a well-formed body returns success; get_updates
\* whose attempts all fail with a transport error returns RpcError "updates".
C3_RetryTransparency ==
  \A c \in Callers :
    (Done(c) /\ op[c] = "get_updates") =>
      /\ ( /\ Len(hist[c]) = 3
           /\ hist[c][1].err /\ hist[c][2].err
           /\ ~hist[c][3].err /\ Is2xx(hist[c][3].status)
           /\ UpdatesArray(resp[c].body) ) => result[c].ok
      /\ (\A i \in DOMAIN hist[c] : hist[c][i].err) =>
           ~result[c].ok /\ result[c].operation = "updates"

\* two transport errors, then a 200 with an array of two updates
C3_Witness ==
  \E c \in Callers :
    /\ Done(c) /\ op[c] = "get_updates"
    /\ Len(hist[c]) = 3
    /\ hist[c][1].err /\ hist[c][2].err
    /\ hist[c][3].status = 200
    /\ UpdatesArray(resp[c].body) /\ Len(resp[c].body.a) = 2
    /\ result[c].ok

\* C4: a call whose final response is not 2xx returns an RpcError, whatever
\* the body.
C4_NonSuccessStatusIsError ==
  \A c \in Callers :
    (Done(c) /\ ~resp[c].err /\ ~Is2xx(resp[c].status)) => ~result[c].ok

\* the operation table of the specification
TableName(o) ==
  CASE o = "get_bootstrap" -> "bootstrap"
    [] o = "get_updates" -> "updates"
    [] o = "get_finality_update" -> "finality_update"
    [] o = "get_optimistic_update" -> "optimistic_update"
    [] o = "get_block" -> "block"
    [] o = "chain_id" -> "spec"

\* C5 as stated: every error carries the table's name of its operation.
C5_Original ==
  \A c \in Callers :
    (Done(c) /\ ~result[c].ok) => result[c].operation = TableName(op[c])

\* the names with get_block's tag as "blocks"
TagName(o) == IF o = "get_block" THEN "blocks" ELSE TableName(o)

\* C5 amended: every error, of transport or of decoding, carries the name of
\* its operation, which for get_block is "blocks"; never another operation's.
C5_ErrorTag ==
  \A c \in Callers :
    (Done(c) /\ ~result[c].ok) =>
      /\ result[c].operation = TagName(op[c])
      /\ \A o \in {"get_bootstrap", "get_updates", "get_finality_update",
                   "get_optimistic_update", "get_block", "chain_id"} \ {op[c]} :
           result[c].operation # TagName(o)

\* get_block ended by a decode failure
C5_Witness ==
  \E c \in Callers :
    /\ Done(c) /\ op[c] = "get_block"
    /\ ~resp[c].err
    /\ ~result[c].ok /\ result[c].cause = "decode"

\* a value of domain type ty
IsA(ty, v) == DOMAIN v = {"ty", "id"} /\ v.ty = ty

\* a numeric DEPOSIT_NETWORK_ID: a number or a string of digits
Numeric(v) ==
  \/ v.t = "number"
  \/ v.t = "string" /\ v.s # <<>> /\ \A i \in DOMAIN v.s : v.s[i] \in {HexDigits[d] : d \in 1 .. 10}

DataType(o) ==
  CASE o = "get_bootstrap" -> "Bootstrap"
    [] o = "get_finality_update" -> "FinalityUpdate"
    [] o = "get_optimistic_update" -> "OptimisticUpdate"

\* the envelope operation o expects
ExpectedShape(o, b) ==
  IF o = "get_updates" THEN UpdatesArray(b)
  ELSE /\ b.t = "object"
       /\ "data" \in DOMAIN b.o
       /\ CASE o = "get_block" ->
                 "message" \in DOMAIN b.o.data /\ IsA("BeaconBlock", b.o.data.message)
            [] o = "chain_id" ->
                 "DEPOSIT_NETWORK_ID" \in DOMAIN b.o.data
                   /\ Numeric(b.o.data.DEPOSIT_NETWORK_ID)
            [] OTHER -> IsA(DataType(o), b.o.data)

\* what the envelope wraps: the data, for get_block its message, for chain_id
\* its DEPOSIT_NETWORK_ID as a number
Inner(o, b) ==
  CASE o = "get_updates" -> [i \in DOMAIN b.a |-> b.a[i].o.data]
    [] o = "get_block" -> b.o.data.message
    [] o = "chain_id" ->
         IF b.o.data.DEPOSIT_NETWORK_ID.t = "number"
         THEN b.o.data.DEPOSIT_NETWORK_ID.n
         ELSE ParseU64(b.o.data.DEPOSIT_NETWORK_ID.s)
    [] OTHER -> b.o.data

\* C6: success only on a body of the expected envelope shape, and then with
\* exactly what the envelope wraps; a malformed body or one without data gives
\* an error tagged with the operation's name, never a substituted value.
C6_DecodeOrError ==
  \A c \in Callers :
    Done(c) =>
      /\ result[c].ok =>
           /\ ~resp[c].err
           /\ ExpectedShape(op[c], resp[c].body)
           /\ result[c].val = Inner(op[c], resp[c].body)
      /\ (~resp[c].err /\ ~ExpectedShape(op[c], resp[c].body)) =>
           /\ ~result[c].ok
           /\ result[c].operation = TagName(op[c])
           /\ result[c].cause = "decode"

\* get_finality_update answered 200 with an object that has no data key
C6_Witness ==
  \E c \in Callers :
    /\ Done(c) /\ op[c] = "get_finality_update"
    /\ ~resp[c].err /\ resp[c].status = 200
    /\ resp[c].body = ErrorObject
    /\ ~result[c].ok /\ result[c].operation = "finality_update"

\* C7: for a well-formed array of n envelopes get_updates returns the n inner
\* updates in the array's order.
C7_UpdatesInOrder ==
  \A c \in Callers :
    (Done(c) /\ op[c] = "get_updates" /\ ~resp[c].err /\ UpdatesArray(resp[c].body)) =>
      /\ result[c].ok
      /\ Len(result[c].val) = Len(resp[c].body.a)
      /\ \A i \in 1 .. Len(resp[c].body.a) : result[c].val[i] = resp[c].body.a[i].o.data

\* an array of two different updates came back as those two, in order
C7_Witness ==
  \E c \in Callers :
    /\ Done(c) /\ op[c] = "get_updates"
    /\ ~resp[c].err /\ UpdatesArray(resp[c].body)
    /\ Len(resp[c].body.a) = 2
    /\ resp[c].body.a[1] # resp[c].body.a[2]
    /\ result[c].ok
    /\ result[c].val = <<resp[c].body.a[1].o.data, resp[c].body.a[2].o.data>>

\* C8: the adapter is in every state what construction made it: the endpoint
\* and the client with its retry policy.
C8_AdapterUnchanged ==
  /\ self.rpc = Endpoint
  /\ self.client.retry_policy.max_n_retries = MAX_N_RETRIES
  /\ self.client.retry_policy.backoff_exponent = BACKOFF_EXPONENT
  /\ self = new(Endpoint)

\* one call has ended after four failed attempts while another was retried
C8_Witness ==
  /\ Done("t1") /\ Len(hist["t1"]) = MAX_N_RETRIES + 1 /\ resp["t1"].err
  /\ pc["t2"] = "send" /\ Len(hist["t2"]) = 2

\* the request operation o builds from parameters a
RequestOf(o, a) ==
  CASE o = "get_bootstrap" -> bootstrap_req(Endpoint, a.block_root)
    [] o = "get_updates" -> updates_req(Endpoint, a.period, a.count)
    [] o = "get_finality_update" -> finality_update_req(Endpoint)
    [] o = "get_optimistic_update" -> optimistic_update_req(Endpoint)
    [] o = "get_block" -> block_req(Endpoint, a.slot)
    [] o = "chain_id" -> spec_req(Endpoint)

\* C9: under every interleaving a call's retry count is the number of its own
\* retried attempts, each attempt carries its own request, a call gives up on
\* a transient failure only after its own fourth attempt, and its result is
\* that of its own final attempt.
C9_CallsIndependent ==
  \A c \in Callers :
    pc[c] # "idle" =>
      /\ n_past_retries[c] = (IF pc[c] = "send" THEN Len(hist[c]) ELSE Len(hist[c]) - 1)
      /\ \A i \in DOMAIN hist[c] : hist[c][i].req = RequestOf(op[c], args[c])
      /\ \A i \in 1 .. Len(hist[c]) - 1 : Transient(hist[c][i])
      /\ (pc[c] # "send" /\ Transient(Last(c))) => Len(hist[c]) = MAX_N_RETRIES + 1
      /\ pc[c] # "send" => Attempt(req[c], resp[c]) = Last(c)
      /\ Done(c) =>
           IF resp[c].err
           THEN ~result[c].ok /\ result[c].cause = resp[c].kind
           ELSE IF ExpectedShape(op[c], resp[c].body)
                THEN result[c].ok /\ result[c].val = Inner(op[c], resp[c].body)
                ELSE ~result[c].ok /\ result[c].cause = "decode"

\* t1 gave up after its four attempts while t2 is in its second retry
C9_Witness ==
  /\ Done("t1") /\ Len(hist["t1"]) = MAX_N_RETRIES + 1 /\ Transient(Last("t1"))
  /\ pc["t2"] = "send" /\ n_past_retries["t2"] = 2 /\ op["t2"] # op["t1"]

\* an attempt that failed: a network error or a response that is not 2xx
Failed(a) == a.err \/ ~Is2xx(a.status)

\* C10: at most 4 attempts per call, one after another; when every attempt is
\* answered the call returns; and it returns the error right after the third
\* retry failed transiently or right after the first non-transient failure.
C10_Original ==
  /\ [](\A c \in Callers :
          /\ Len(hist[c]) <= MAX_N_RETRIES + 1
          /\ \A i \in 1 .. Len(hist[c]) - 1 : Failed(hist[c][i])
          /\ (Done(c) /\ Failed(Last(c))) =>
               /\ ~result[c].ok
               /\ Len(hist[c]) = MAX_N_RETRIES + 1 \/ NonTransient(Last(c)))
  /\ \A c \in Callers : (pc[c] = "send") ~> Done(c)

====
